---- MODULE Spec2Model ----
(***************************************************************************)
(* Web Baseline MCP server: the DataLoader store (src/src/data-loader.ts)  *)
(* and its callers.  JavaScript strings that the code lower-cases, trims,  *)
(* joins or searches are modelled as sequences of one-character strings,   *)
(* so that these conversions are computed, not assumed.  Strings the code  *)
(* only carries around (URLs, version numbers, quarters) stay TLA+ strings.*)
(***************************************************************************)
EXTENDS Integers, Sequences, FiniteSets, TLC

VARIABLES
    bcdCache,       \* DataLoader.bcdCache: Map<string, FeatureData>, in insertion order
    baselineCache,  \* DataLoader.baselineCache: Map<number, BaselineFeature[]>
    lastUpdate,     \* DataLoader.lastUpdate
    featuresMap,    \* DataLoader.featuresMap: the external features table, or null
    groups,         \* DataLoader.groups
    browsers,       \* DataLoader.browsers
    snapshots,      \* DataLoader.snapshots
    now,            \* the value Date.now() returns
    ret,            \* the call being answered and its result ("idle" between calls)
    pending,        \* the calls of loadBCDData suspended at await import('web-features')
    clients,        \* SSEServer.clients: Map<string, express.Response>, in insertion order
    connections,    \* the event streams opened so far: the id each registered under, open or not
    eventCounter    \* SSEServer.eventCounter

vars == <<bcdCache, baselineCache, lastUpdate, featuresMap, groups, browsers, snapshots,
          now, ret, pending, clients, connections, eventCounter>>

store == <<bcdCache, baselineCache, lastUpdate, featuresMap, groups, browsers, snapshots>>

\* The fields of SSEServer that its event streams change.
streams == <<clients, connections, eventCounter>>

----------------------------------------------------------------------------
(* JavaScript string primitives, on sequences of characters.               *)

UpperLetters ==
    <<"A","B","C","D","E","F","G","H","I","J","K","L","M",
      "N","O","P","Q","R","S","T","U","V","W","X","Y","Z">>

LowerLetters ==
    <<"a","b","c","d","e","f","g","h","i","j","k","l","m",
      "n","o","p","q","r","s","t","u","v","w","x","y","z">>

\* The characters String.prototype.trim removes (those the inputs here can hold).
WhiteSpace == {" ", "\t", "\n", "\r"}

toLowerCaseChar(c) ==
    IF \E i \in 1..26 : UpperLetters[i] = c
    THEN LowerLetters[CHOOSE i \in 1..26 : UpperLetters[i] = c]
    ELSE c

toUpperCaseChar(c) ==
    IF \E i \in 1..26 : LowerLetters[i] = c
    THEN UpperLetters[CHOOSE i \in 1..26 : LowerLetters[i] = c]
    ELSE c

\* String.prototype.toLowerCase
toLowerCase(s) == [i \in 1..Len(s) |-> toLowerCaseChar(s[i])]

\* String.prototype.toUpperCase
toUpperCase(s) == [i \in 1..Len(s) |-> toUpperCaseChar(s[i])]

\* String.prototype.trim
trim(s) ==
    LET keep == {i \in 1..Len(s) : s[i] \notin WhiteSpace}
    IN  IF keep = {} THEN <<>>
        ELSE SubSeq(s, CHOOSE i \in keep : \A j \in keep : i <= j,
                       CHOOSE i \in keep : \A j \in keep : j <= i)

\* String.prototype.includes
includes(hay, q) ==
    \E i \in 0..(Len(hay) - Len(q)) : SubSeq(hay, i + 1, i + Len(q)) = q

\* Array.prototype.join(' ') on an array of strings
RECURSIVE joinSpace(_)
joinSpace(parts) ==
    IF parts = <<>> THEN <<>>
    ELSE IF Len(parts) = 1 THEN parts[1]
    ELSE parts[1] \o <<" ">> \o joinSpace(Tail(parts))

\* Array.prototype.filter(Boolean) on an array of strings: drops the empty ones
filterBoolean(parts) == SelectSeq(parts, LAMBDA p : p # <<>>)

\* Array.prototype.slice(0, n) for an integer n >= 0
slice0(arr, n) == SubSeq(arr, 1, IF n < Len(arr) THEN n ELSE Len(arr))

----------------------------------------------------------------------------
(* JavaScript values.  undefined and '' are both falsy and the code reads  *)
(* optional strings only through ||, so the empty sequence stands for an   *)
(* absent string.  Objects are records tagged by kind.                     *)

Undefined == [kind |-> "undefined"]
Null == [kind |-> "null"]
NoStr == <<>>

\* JavaScript truthiness of an object-or-undefined value
Truthy(v) == v.kind \notin {"undefined", "null"}

\* a || b on object-or-undefined values
Or(a, b) == IF Truthy(a) THEN a ELSE b

\* a || b on strings
OrStr(a, b) == IF a # NoStr THEN a ELSE b

\* BrowserSupport keys
BrowserKeys ==
    {"chrome", "edge", "firefox", "safari", "chrome_android", "firefox_android",
     "safari_ios"}

\* A support value: a version string, a boolean, or absent.
Version(v) == [t |-> "string", v |-> v]
SupportFalse == [t |-> "boolean", v |-> "false"]
SupportTrue == [t |-> "boolean", v |-> "true"]
SupportAbsent == [t |-> "undefined", v |-> ""]

\* A BrowserSupport object from the four desktop entries; the other keys are absent.
Support(c, e, f, s) ==
    [b \in BrowserKeys |->
        CASE b = "chrome" -> c
          [] b = "edge" -> e
          [] b = "firefox" -> f
          [] b = "safari" -> s
          [] OTHER -> SupportAbsent]

\* The object literal {}
EmptySupport == [b \in BrowserKeys |-> SupportAbsent]

\* BaselineStatus: {high, low}, or absent
Baseline(high, low) == [t |-> "object", high |-> high, low |-> low, label |-> ""]
NoBaseline == [t |-> "undefined", high |-> NoStr, low |-> NoStr, label |-> ""]

\* Ordered maps (Map, and plain objects with non-numeric keys): sequences of
\* [key, val] in insertion order.
MapKeys(m) == {m[i].key : i \in 1..Len(m)}
MapHas(m, k) == \E i \in 1..Len(m) : m[i].key = k
MapGet(m, k) == IF MapHas(m, k) THEN m[CHOOSE i \in 1..Len(m) : m[i].key = k].val ELSE Undefined
\* A set that adds an entry even when the key is there already.
MapSet_appending(m, k, v) == Append(m, [key |-> k, val |-> v])

MapSet(m, k, v) ==
    IF MapHas(m, k)
    THEN [i \in 1..Len(m) |-> IF m[i].key = k THEN [key |-> k, val |-> v] ELSE m[i]]
    ELSE Append(m, [key |-> k, val |-> v])

----------------------------------------------------------------------------
(* The bundled sample data and the alias table of data-loader.ts.          *)

\* 'css-has-selector'
Id_cssHasSelector == <<"c","s","s","-","h","a","s","-","s","e","l","e","c","t","o","r">>
\* 'offscreen-canvas'
Id_offscreenCanvas ==
    <<"o","f","f","s","c","r","e","e","n","-","c","a","n","v","a","s">>
\* 'webusb'
Id_webusb == <<"w","e","b","u","s","b">>
\* 'fetch-streaming'
Id_fetchStreaming == <<"f","e","t","c","h","-","s","t","r","e","a","m","i","n","g">>

\* 'css :has()'
Alias_cssHasParen == <<"c","s","s"," ",":","h","a","s","(",")">>
\* 'css has'
Alias_cssHas == <<"c","s","s"," ","h","a","s">>
\* 'offscreen canvas'
Alias_offscreenCanvas ==
    <<"o","f","f","s","c","r","e","e","n"," ","c","a","n","v","a","s">>
\* 'web usb'
Alias_webUsb == <<"w","e","b"," ","u","s","b">>
\* 'fetch streaming'
Alias_fetchStreaming == <<"f","e","t","c","h"," ","s","t","r","e","a","m","i","n","g">>

\* 'CSS :has() selector'
Name_cssHasSelector ==
    <<"C","S","S"," ",":","h","a","s","(",")"," ","s","e","l","e","c","t","o","r">>
\* 'The :has() CSS pseudo-class represents an element if any of the selectors passed as parameters match at least one element.'
Desc_cssHasSelector ==
    <<"T","h","e"," ",":","h","a","s","(",")"," ","C","S","S"," ","p","s","e","u","d","o","-",
      "c","l","a","s","s"," ","r","e","p","r","e","s","e","n","t","s"," ","a","n"," ","e","l",
      "e","m","e","n","t"," ","i","f"," ","a","n","y"," ","o","f"," ","t","h","e"," ","s","e",
      "l","e","c","t","o","r","s"," ","p","a","s","s","e","d"," ","a","s"," ","p","a","r","a",
      "m","e","t","e","r","s"," ","m","a","t","c","h"," ","a","t"," ","l","e","a","s","t"," ",
      "o","n","e"," ","e","l","e","m","e","n","t",".">>
\* '2023-12-01'
High_cssHasSelector == <<"2","0","2","3","-","1","2","-","0","1">>
\* '2023-03-01'
Low_cssHasSelector == <<"2","0","2","3","-","0","3","-","0","1">>
\* 'OffscreenCanvas'
Name_offscreenCanvas == <<"O","f","f","s","c","r","e","e","n","C","a","n","v","a","s">>
\* 'The OffscreenCanvas interface provides a canvas that can be rendered off screen.'
Desc_offscreenCanvas ==
    <<"T","h","e"," ","O","f","f","s","c","r","e","e","n","C","a","n","v","a","s"," ","i","n",
      "t","e","r","f","a","c","e"," ","p","r","o","v","i","d","e","s"," ","a"," ","c","a","n",
      "v","a","s"," ","t","h","a","t"," ","c","a","n"," ","b","e"," ","r","e","n","d","e","r",
      "e","d"," ","o","f","f"," ","s","c","r","e","e","n",".">>
\* '2022-03-01'
High_offscreenCanvas == <<"2","0","2","2","-","0","3","-","0","1">>
\* '2021-09-01'
Low_offscreenCanvas == <<"2","0","2","1","-","0","9","-","0","1">>
\* 'WebUSB API'
Name_webusb == <<"W","e","b","U","S","B"," ","A","P","I">>
\* 'The WebUSB API provides a way to safely expose USB device services to the web.'
Desc_webusb ==
    <<"T","h","e"," ","W","e","b","U","S","B"," ","A","P","I"," ","p","r","o","v","i","d","e",
      "s"," ","a"," ","w","a","y"," ","t","o"," ","s","a","f","e","l","y"," ","e","x","p","o",
      "s","e"," ","U","S","B"," ","d","e","v","i","c","e"," ","s","e","r","v","i","c","e","s",
      " ","t","o"," ","t","h","e"," ","w","e","b",".">>
\* 'Fetch Streaming'
Name_fetchStreaming == <<"F","e","t","c","h"," ","S","t","r","e","a","m","i","n","g">>
\* 'Streaming support for the Fetch API using ReadableStream.'
Desc_fetchStreaming ==
    <<"S","t","r","e","a","m","i","n","g"," ","s","u","p","p","o","r","t"," ","f","o","r"," ",
      "t","h","e"," ","F","e","t","c","h"," ","A","P","I"," ","u","s","i","n","g"," ","R","e",
      "a","d","a","b","l","e","S","t","r","e","a","m",".">>
\* '2022-07-01'
High_fetchStreaming == <<"2","0","2","2","-","0","7","-","0","1">>
\* '2020-01-01'
Low_fetchStreaming == <<"2","0","2","0","-","0","1","-","0","1">>

\* A FeatureData object; status fields are "true", "false" or "undefined".
FeatureData(name, description, mdn_url, spec_url, baseline, support, status) ==
    [kind |-> "FeatureData", name |-> name, description |-> description,
     mdn_url |-> mdn_url, spec_url |-> spec_url, baseline |-> baseline,
     support |-> support, status |-> status]

Status(experimental, standard_track, deprecated) ==
    [experimental |-> experimental, standard_track |-> standard_track,
     deprecated |-> deprecated]

Entry(k, v) == [key |-> k, val |-> v]

getSampleBCDData ==
    << Entry(Id_cssHasSelector,
             FeatureData(Name_cssHasSelector, Desc_cssHasSelector,
                 "https://developer.mozilla.org/en-US/docs/Web/CSS/:has", "",
                 Baseline(High_cssHasSelector, Low_cssHasSelector),
                 Support(Version("105"), Version("105"), Version("121"), Version("15.4")),
                 Status("undefined", "true", "undefined"))),
       Entry(Id_offscreenCanvas,
             FeatureData(Name_offscreenCanvas, Desc_offscreenCanvas,
                 "https://developer.mozilla.org/en-US/docs/Web/API/OffscreenCanvas", "",
                 Baseline(High_offscreenCanvas, Low_offscreenCanvas),
                 Support(Version("69"), Version("79"), Version("105"), Version("16.4")),
                 Status("undefined", "true", "undefined"))),
       Entry(Id_webusb,
             FeatureData(Name_webusb, Desc_webusb,
                 "https://developer.mozilla.org/en-US/docs/Web/API/USB", "",
                 NoBaseline,
                 Support(Version("61"), Version("79"), SupportFalse, SupportFalse),
                 Status("true", "undefined", "undefined"))),
       Entry(Id_fetchStreaming,
             FeatureData(Name_fetchStreaming, Desc_fetchStreaming,
                 "https://developer.mozilla.org/en-US/docs/Web/API/Fetch_API/Using_Fetch#processing_a_text_file_line_by_line",
                 "",
                 Baseline(High_fetchStreaming, Low_fetchStreaming),
                 Support(Version("43"), Version("14"), Version("65"), Version("10.1")),
                 Status("undefined", "true", "undefined"))) >>

BaselineFeature(name, year, quarter, description) ==
    [name |-> name, year |-> year, quarter |-> quarter, description |-> description]

\* The object literal of getSampleBaselineData, in the order it is written; its
\* property names are the decimal strings of the years.
getSampleBaselineData ==
    << Entry(<<"2","0","2","4">>,
             << BaselineFeature(Id_cssHasSelector, 2024, "Q1",
                                "CSS :has() pseudo-class selector") >>),
       Entry(<<"2","0","2","3">>,
             << BaselineFeature(Id_cssHasSelector, 2023, "Q4",
                                "CSS :has() pseudo-class selector") >>),
       Entry(<<"2","0","2","2">>,
             << BaselineFeature(Id_offscreenCanvas, 2022, "Q1", "OffscreenCanvas API"),
                BaselineFeature(Id_fetchStreaming, 2022, "Q3",
                                "Fetch API streaming support") >>) >>

\* normalizations: Record<string, string>
normalizations ==
    << Entry(Alias_cssHasParen, Id_cssHasSelector),
       Entry(Alias_cssHas, Id_cssHasSelector),
       Entry(Alias_offscreenCanvas, Id_offscreenCanvas),
       Entry(Alias_webUsb, Id_webusb),
       Entry(Alias_fetchStreaming, Id_fetchStreaming) >>

CACHE_TTL == 1000 * 60 * 60

----------------------------------------------------------------------------
(* Property lookup on a plain object.  normalizations and the external     *)
(* features table are plain objects: obj[key] answers with the object's    *)
(* own property, and otherwise with the member of that name inherited from *)
(* Object.prototype.                                                       *)

\* 'constructor'
Key_constructor == <<"c","o","n","s","t","r","u","c","t","o","r">>
\* '__proto__'
Key_proto == <<"_","_","p","r","o","t","o","_","_">>
\* 'toString'
Key_toString == <<"t","o","S","t","r","i","n","g">>
\* 'valueOf'
Key_valueOf == <<"v","a","l","u","e","O","f">>
\* 'hasOwnProperty'
Key_hasOwnProperty == <<"h","a","s","O","w","n","P","r","o","p","e","r","t","y">>
\* 'isPrototypeOf'
Key_isPrototypeOf == <<"i","s","P","r","o","t","o","t","y","p","e","O","f">>
\* 'toLocaleString'
Key_toLocaleString == <<"t","o","L","o","c","a","l","e","S","t","r","i","n","g">>
\* 'propertyIsEnumerable'
Key_propertyIsEnumerable ==
    <<"p","r","o","p","e","r","t","y","I","s","E","n","u","m","e","r","a","b","l","e">>

\* The property names every plain object inherits from Object.prototype.
ObjectPrototypeKeys ==
    {Key_constructor, Key_proto, Key_toString, Key_valueOf, Key_hasOwnProperty,
     Key_isPrototypeOf, Key_toLocaleString, Key_propertyIsEnumerable}

\* The inherited member named k: a function (or, for __proto__, an object): truthy,
\* not a string and not a feature.
Inherited(k) == [kind |-> "inherited", s |-> k]

\* A string value, where the same expression may also yield a non-string.
Str(s) == [kind |-> "string", s |-> s]

\* normalizations[lower]
normalizationsAt(lower) ==
    IF MapHas(normalizations, lower) THEN Str(MapGet(normalizations, lower))
    ELSE IF lower \in ObjectPrototypeKeys THEN Inherited(lower)
    ELSE Undefined

\* A normalizeFeatureName that looks the name up as it is written.
normalizeFeatureName_caseSensitive(name) ==
    Or(normalizationsAt(name), Str(name))

\* A normalizeFeatureName that also trims the name.
normalizeFeatureName_trimming(name) ==
    LET lower == trim(toLowerCase(name))
    IN  Or(normalizationsAt(lower), Str(name))

\* normalizeFeatureName(name): normalizations[name.toLowerCase()] || name
normalizeFeatureName(name) ==
    LET lower == toLowerCase(name)
    IN  Or(normalizationsAt(lower), Str(name))

\* featuresMap[key] for a features table that is present; key is the value
\* normalizeFeatureName returned.  A key that is not a string is converted to one
\* ("function Object() { [native code] }", "[object Object]"), which names nothing.
featuresMapAt(table, key) ==
    IF key.kind # "string" THEN Undefined
    ELSE IF MapHas(table.entries, key.s) THEN MapGet(table.entries, key.s)
    ELSE IF key.s \in ObjectPrototypeKeys THEN Inherited(key.s)
    ELSE Undefined

\* bcdCache.get(key): a Map compares keys by value and holds only string keys
bcdCacheGet(key) ==
    IF key.kind = "string" THEN MapGet(bcdCache, key.s) ELSE Undefined

----------------------------------------------------------------------------
(* The web-features package as import('web-features') may find it.         *)

\* 'has'
ExtId_has == <<"h","a","s">>
\* ':has()'
ExtName_has == <<":","h","a","s","(",")">>
\* 'The :has() CSS functional pseudo-class matches an element by its descendants.'
ExtDesc_has ==
    <<"T","h","e"," ",":","h","a","s","(",")"," ","C","S","S"," ","f","u","n","c","t","i","o",
      "n","a","l"," ","p","s","e","u","d","o","-","c","l","a","s","s"," ","m","a","t","c","h",
      "e","s"," ","a","n"," ","e","l","e","m","e","n","t"," ","b","y"," ","i","t","s"," ","d",
      "e","s","c","e","n","d","a","n","t","s",".">>
\* 'css.selectors.has'
ExtCompat_has == <<"c","s","s",".","s","e","l","e","c","t","o","r","s",".","h","a","s">>
\* 'WebUSB'
ExtName_webusb == <<"W","e","b","U","S","B">>
\* 'The WebUSB API exposes USB devices to web pages.'
ExtSummary_webusb ==
    <<"T","h","e"," ","W","e","b","U","S","B"," ","A","P","I"," ","e","x","p","o","s","e","s",
      " ","U","S","B"," ","d","e","v","i","c","e","s"," ","t","o"," ","w","e","b"," ","p","a",
      "g","e","s",".">>
\* 'api.USB'
ExtCompat_webusb == <<"a","p","i",".","U","S","B">>
\* 'grid'
ExtId_grid == <<"g","r","i","d">>
\* 'CSS grid is a two-dimensional layout system.'
ExtDesc_grid ==
    <<"C","S","S"," ","g","r","i","d"," ","i","s"," ","a"," ","t","w","o","-","d","i","m","e",
      "n","s","i","o","n","a","l"," ","l","a","y","o","u","t"," ","s","y","s","t","e","m",".">>
\* 'broken'
ExtId_broken == <<"b","r","o","k","e","n">>
\* 'later'
ExtId_later == <<"l","a","t","e","r">>
\* 'Later entry'
ExtName_later == <<"L","a","t","e","r"," ","e","n","t","r","y">>

\* A table (plain object keyed by id), or no table.
Table(entries) == [present |-> TRUE, entries |-> entries]
NoTable == [present |-> FALSE, entries |-> <<>>]

RawSupport(s) == [present |-> TRUE, of |-> s]
NoRawSupport == [present |-> FALSE, of |-> EmptySupport]

\* status.baseline of web-features: "high", "low" or false
BaselineLabel(l) == [t |-> "string", high |-> NoStr, low |-> NoStr, label |-> l]
BaselineFalse == [t |-> "boolean", high |-> NoStr, low |-> NoStr, label |-> "false"]

RawStatus(baseline, support, experimental, standard_track, deprecated) ==
    [present |-> TRUE, baseline |-> baseline, support |-> support,
     experimental |-> experimental, standard_track |-> standard_track,
     deprecated |-> deprecated]

NoRawStatus ==
    [present |-> FALSE, baseline |-> NoBaseline, support |-> NoRawSupport,
     experimental |-> "undefined", standard_track |-> "undefined",
     deprecated |-> "undefined"]

\* A raw feature with no property set.
RawEmpty ==
    [kind |-> "raw", name |-> NoStr, description |-> NoStr, summary |-> NoStr,
     mdn_url |-> "", spec |-> "", status |-> NoRawStatus, support |-> NoRawSupport,
     experimental |-> "undefined", standard_track |-> "undefined",
     deprecated |-> "undefined", group |-> "", compat_features |-> <<>>]

RawHas ==
    [RawEmpty EXCEPT
        !.name = ExtName_has, !.description = ExtDesc_has,
        !.spec = "https://drafts.csswg.org/selectors-4/#relational",
        !.status = RawStatus(BaselineLabel("high"),
                       RawSupport(Support(Version("105"), Version("105"), Version("121"),
                                          Version("15.4"))),
                       "undefined", "undefined", "undefined"),
        !.group = "selectors", !.compat_features = <<ExtCompat_has>>]

RawWebusb ==
    [RawEmpty EXCEPT
        !.name = ExtName_webusb, !.summary = ExtSummary_webusb,
        !.status = RawStatus(BaselineFalse,
                       RawSupport(Support(Version("61"), Version("79"), SupportAbsent,
                                          SupportAbsent)),
                       "true", "undefined", "undefined"),
        !.compat_features = <<ExtCompat_webusb>>]

RawGrid ==
    [RawEmpty EXCEPT
        !.description = ExtDesc_grid,
        !.support = RawSupport(Support(Version("57"), Version("16"), Version("52"),
                                       SupportTrue)),
        !.standard_track = "true", !.group = "css"]

RawLater == [RawEmpty EXCEPT !.name = ExtName_later]

\* A table whose every entry can be read.
ExtFeatures ==
    << Entry(ExtId_has, RawHas), Entry(Id_webusb, RawWebusb), Entry(ExtId_grid, RawGrid) >>

\* A malformed table: reading the second entry's properties throws (it is null).
ExtMalformed ==
    << Entry(ExtId_has, RawHas), Entry(ExtId_broken, Null), Entry(ExtId_later, RawLater) >>

DefaultLimit == 10

Digit == <<"0","1","2","3","4","5","6","7","8","9">>

\* The decimal digits of n >= 0
RECURSIVE decimal(_)
decimal(n) == IF n < 10 THEN <<Digit[n + 1]>> ELSE decimal(n \div 10) \o <<Digit[(n % 10) + 1]>>

\* A table with more entries than the default search limit: x1, x2, ...
ExtMany ==
    [i \in 1..(DefaultLimit + 1) |-> Entry(<<"x">> \o decimal(i), RawEmpty)]

NoDefault ==
    [present |-> FALSE, features |-> NoTable, groups |-> "", browsers |-> "",
     snapshots |-> ""]

\* import('web-features') rejected: the package is not installed.
ImportRejected ==
    [resolved |-> FALSE, features |-> NoTable, groups |-> "", browsers |-> "",
     snapshots |-> "", default |-> NoDefault]

\* A module namespace with the named exports features, groups, browsers, snapshots.
ModuleNamed(entries) ==
    [resolved |-> TRUE, features |-> Table(entries), groups |-> "groups",
     browsers |-> "browsers", snapshots |-> "snapshots", default |-> NoDefault]

\* A module whose only export is default = {features, groups, browsers, snapshots}.
ModuleDefault(entries) ==
    [resolved |-> TRUE, features |-> NoTable, groups |-> "", browsers |-> "",
     snapshots |-> "",
     default |-> [present |-> TRUE, features |-> Table(entries),
                  groups |-> "default.groups", browsers |-> "default.browsers",
                  snapshots |-> "default.snapshots"]]

\* A module with a default export that carries no features table.
ModuleDefaultWithoutFeatures ==
    [resolved |-> TRUE, features |-> NoTable, groups |-> "", browsers |-> "",
     snapshots |-> "",
     default |-> [present |-> TRUE, features |-> NoTable, groups |-> "",
                  browsers |-> "", snapshots |-> ""]]

\* A module with neither a features nor a default export.
ModuleEmpty ==
    [resolved |-> TRUE, features |-> NoTable, groups |-> "", browsers |-> "",
     snapshots |-> "", default |-> NoDefault]

Imports ==
    {ImportRejected, ModuleNamed(ExtFeatures), ModuleDefault(ExtFeatures),
     ModuleDefaultWithoutFeatures, ModuleEmpty, ModuleNamed(ExtMalformed),
     ModuleNamed(ExtMany)}

----------------------------------------------------------------------------
(* DataLoader.loadBCDData                                                  *)

\* A gate that takes the TTL in seconds.
cacheIsFresh_inSeconds == now - lastUpdate < 60 * 60 /\ Len(bcdCache) > 0

\* The gate of loadBCDData: the cache is fresh and not empty.
cacheIsFresh == now - lastUpdate < CACHE_TTL /\ Len(bcdCache) > 0

BoolString(b) == IF b THEN "true" ELSE "false"

\* f.status?.baseline || undefined
mappedBaseline(f) ==
    IF f.status.present /\ f.status.baseline.t \in {"object", "string"}
    THEN f.status.baseline
    ELSE NoBaseline

\* f.status?.support || f.support || {}
mappedSupport(f) ==
    IF f.status.present /\ f.status.support.present THEN f.status.support.of
    ELSE IF f.support.present THEN f.support.of
    ELSE EmptySupport

\* The FeatureData built from the raw feature f stored under id.
mapped(id, f) ==
    FeatureData(OrStr(f.name, id),
        OrStr(f.description, f.summary),
        f.mdn_url,
        f.spec,
        mappedBaseline(f),
        mappedSupport(f),
        Status(BoolString((f.status.present /\ f.status.experimental = "true")
                              \/ f.experimental = "true"),
               BoolString((f.status.present /\ f.status.standard_track = "true")
                              \/ f.standard_track = "true"),
               BoolString((f.status.present /\ f.status.deprecated = "true")
                              \/ f.deprecated = "true")))

\* The loop over Object.entries(featuresMap): each entry is mapped and stored until
\* one cannot be read (f.name of null throws a TypeError), which ends the loop.
RECURSIVE setMappedEntries(_, _)
setMappedEntries(cache, entries) ==
    IF entries = <<>> THEN [cache |-> cache, threw |-> FALSE]
    ELSE IF ~Truthy(Head(entries).val) THEN [cache |-> cache, threw |-> TRUE]
    ELSE setMappedEntries(
             MapSet(cache, Head(entries).key, mapped(Head(entries).key, Head(entries).val)),
             Tail(entries))

\* The loop over Object.entries(sampleData): bcdCache.set(key, data) for each.
RECURSIVE setEntries(_, _)
setEntries(cache, entries) ==
    IF entries = <<>> THEN cache
    ELSE setEntries(MapSet(cache, Head(entries).key, Head(entries).val), Tail(entries))

\* a || b || null on handles ("" stands for undefined and null)
OrHandle(a, b) == IF a # "" THEN a ELSE b

\* What loadBCDData leaves in the loader's fields once await import('web-features')
\* has answered imp (lines 36 to 82, which run without a further await); path names
\* the branch taken.
loadBCDDataAfterImport(imp) ==
    IF imp.resolved /\ (imp.features.present \/ imp.default.present)
    THEN LET features == IF imp.features.present THEN imp.features
                         ELSE imp.default.features
             r == IF features.present THEN setMappedEntries(bcdCache, features.entries)
                  ELSE [cache |-> bcdCache, threw |-> FALSE]
         IN  [bcdCache |-> IF r.threw THEN setEntries(r.cache, getSampleBCDData)
                           ELSE r.cache,
              lastUpdate |-> IF r.threw THEN lastUpdate ELSE now,
              featuresMap |-> features,
              groups |-> OrHandle(imp.groups, imp.default.groups),
              browsers |-> OrHandle(imp.browsers, imp.default.browsers),
              snapshots |-> OrHandle(imp.snapshots, imp.default.snapshots),
              path |-> IF r.threw THEN "catch"
                       ELSE IF features.present THEN "external" ELSE "no-features"]
    ELSE [bcdCache |-> setEntries(bcdCache, getSampleBCDData), lastUpdate |-> now,
          featuresMap |-> featuresMap, groups |-> groups, browsers |-> browsers,
          snapshots |-> snapshots, path |-> "sample"]

\* What one call of loadBCDData, run to its end, leaves in the loader's fields, when
\* import() answers imp.
loadBCDDataResult(imp) ==
    IF cacheIsFresh
    THEN [bcdCache |-> bcdCache, lastUpdate |-> lastUpdate, featuresMap |-> featuresMap,
          groups |-> groups, browsers |-> browsers, snapshots |-> snapshots,
          path |-> "fresh"]
    ELSE loadBCDDataAfterImport(imp)

----------------------------------------------------------------------------
(* DataLoader.loadBaselineData and the lookups                             *)

IsDigit(c) == \E i \in 1..10 : Digit[i] = c
DigitValue(c) == (CHOOSE i \in 1..10 : Digit[i] = c) - 1

\* Number.NaN, which equals no year
NaN == 0 - 1

RECURSIVE digitsValue(_, _)
digitsValue(s, acc) ==
    IF s = <<>> \/ ~IsDigit(Head(s)) THEN acc
    ELSE digitsValue(Tail(s), acc * 10 + DigitValue(Head(s)))

\* parseInt(s) for an unsigned decimal string: leading white space is skipped and
\* the digits up to the first other character are read; NaN when there are none.
RECURSIVE parseInt(_)
parseInt(s) ==
    IF s = <<>> THEN NaN
    ELSE IF Head(s) \in WhiteSpace THEN parseInt(Tail(s))
    ELSE IF ~IsDigit(Head(s)) THEN NaN
    ELSE digitsValue(s, 0)

\* Object.entries of an object whose property names are all integers: in ascending
\* numeric order, whatever the order they were written in.
RECURSIVE ObjectEntriesByInteger(_)
ObjectEntriesByInteger(obj) ==
    IF obj = <<>> THEN <<>>
    ELSE LET least == CHOOSE i \in 1..Len(obj) :
                          \A j \in 1..Len(obj) : parseInt(obj[i].key) <= parseInt(obj[j].key)
             rest == SelectSeq(obj, LAMBDA e : e # obj[least])
         IN  <<obj[least]>> \o ObjectEntriesByInteger(rest)

\* The loop of loadBaselineData: baselineCache.set(parseInt(year), features)
RECURSIVE setBaselineEntries(_, _)
setBaselineEntries(cache, entries) ==
    IF entries = <<>> THEN cache
    ELSE setBaselineEntries(
             MapSet(cache, parseInt(Head(entries).key), Head(entries).val), Tail(entries))

loadBaselineDataResult ==
    setBaselineEntries(baselineCache, ObjectEntriesByInteger(getSampleBaselineData))

\* getFeature(name)
getFeature(name) ==
    LET normalizedName == normalizeFeatureName(name)
    IN  IF featuresMap.present /\ Truthy(featuresMapAt(featuresMap, normalizedName))
        THEN Or(bcdCacheGet(normalizedName), featuresMapAt(featuresMap, normalizedName))
        ELSE Or(bcdCacheGet(normalizedName), bcdCacheGet(Str(name)))

\* getRawFeature(id): this.featuresMap ? this.featuresMap[id] : undefined
getRawFeature(id) ==
    IF featuresMap.present THEN featuresMapAt(featuresMap, Str(id)) ELSE Undefined

\* getAllFeatures(): the mapped records of the table's keys when the table is
\* present, and otherwise the values of bcdCache
getAllFeatures ==
    IF featuresMap.present
    THEN SelectSeq([i \in 1..Len(featuresMap.entries) |->
                       MapGet(bcdCache, featuresMap.entries[i].key)],
                   LAMBDA f : Truthy(f))
    ELSE [i \in 1..Len(bcdCache) |-> bcdCache[i].val]

\* A getBaselineFeatures that falls back to the year before.
getBaselineFeatures_nearestYear(year) ==
    IF MapHas(baselineCache, year) THEN MapGet(baselineCache, year)
    ELSE IF MapHas(baselineCache, year - 1) THEN MapGet(baselineCache, year - 1)
    ELSE <<>>

\* getBaselineFeatures(year): this.baselineCache.get(year) || []
getBaselineFeatures(year) ==
    IF MapHas(baselineCache, year) THEN MapGet(baselineCache, year) ELSE <<>>

\* The limit parameter when the caller passes none.
Omitted == 0 - 1

\* limit: number = 10
effectiveLimit(limit) == IF limit = Omitted THEN DefaultLimit ELSE limit

\* One search hit: {id, name, description, group}
Hit(id, name, description, group) ==
    [id |-> id, name |-> name, description |-> description, group |-> group]

\* The hit findFeatures builds for the entry [id, rawOrFeature] and the haystack it
\* is matched by.
candidate(id, rawOrFeature) ==
    LET raw == IF featuresMap.present THEN rawOrFeature ELSE Undefined
        feature == Or(MapGet(bcdCache, id), rawOrFeature)
        name == OrStr(IF Truthy(feature) THEN feature.name ELSE NoStr,
                      OrStr(IF Truthy(raw) THEN raw.name ELSE NoStr, id))
        description == OrStr(IF Truthy(feature) THEN feature.description ELSE NoStr,
                             IF Truthy(raw) THEN raw.description ELSE NoStr)
        group == IF Truthy(raw) THEN raw.group ELSE ""
        compat == IF Truthy(raw) THEN raw.compat_features ELSE <<>>
    IN  [hit |-> Hit(id, name, description, group),
         hay |-> toLowerCase(joinSpace(filterBoolean(<<id, name, description>> \o compat)))]

\* A collect that puts each new hit in front of the earlier ones.
RECURSIVE collect_newestFirst(_, _, _, _)
collect_newestFirst(entries, results, q, limit) ==
    IF entries = <<>> \/ Len(results) >= limit THEN results
    ELSE LET c == candidate(Head(entries).key, Head(entries).val)
         IN  collect_newestFirst(Tail(entries),
                     IF includes(c.hay, q) THEN <<c.hit>> \o results ELSE results,
                     q, limit)

\* The for loop of findFeatures over entries, with results collected so far.
RECURSIVE collect(_, _, _, _)
collect(entries, results, q, limit) ==
    IF entries = <<>> \/ Len(results) >= limit THEN results
    ELSE LET c == candidate(Head(entries).key, Head(entries).val)
         IN  collect(Tail(entries),
                     IF includes(c.hay, q) THEN Append(results, c.hit) ELSE results,
                     q, limit)

\* A findFeatures without the early return for an empty query.
findFeatures_withoutEmptyCheck(query, limit) ==
    LET q == trim(toLowerCase(query))
        entries == IF featuresMap.present THEN featuresMap.entries ELSE bcdCache
    IN  slice0(collect(entries, <<>>, q, effectiveLimit(limit)), effectiveLimit(limit))

\* A findFeatures that stops one hit late: results.length > limit, and no slice.
findFeatures_oneTooMany(query, limit) ==
    LET q == trim(toLowerCase(query))
        entries == IF featuresMap.present THEN featuresMap.entries ELSE bcdCache
    IN  IF q = <<>> THEN <<>>
        ELSE collect(entries, <<>>, q, effectiveLimit(limit) + 1)

\* findFeatures(query, limit) for an integer limit >= 0, or Omitted
findFeatures(query, limit) ==
    LET q == trim(toLowerCase(query))
        entries == IF featuresMap.present THEN featuresMap.entries ELSE bcdCache
    IN  IF q = <<>> THEN <<>>
        ELSE slice0(collect(entries, <<>>, q, effectiveLimit(limit)), effectiveLimit(limit))

----------------------------------------------------------------------------
(* compareFeatures, of WebBaselineMCPServer (src/src/mcp-server.ts) and of *)
(* SSEServer (src/src/sse-server.ts)                                       *)

\* new Date(s) for a date-only string 'YYYY-MM-DD': midnight UTC of that day.
DateOf(s) ==
    [year |-> digitsValue(SubSeq(s, 1, 4), 0),
     month |-> digitsValue(SubSeq(s, 6, 7), 0),
     day |-> digitsValue(SubSeq(s, 9, 10), 0)]

\* A getFullYear that answers in UTC, as getUTCFullYear does.
getFullYear_inUTC(d, timeZone) == d.year

\* Date.prototype.getFullYear: the year in local time, timeZone being what
\* getTimezoneOffset gives (minutes west of UTC).  Midnight UTC is still the day
\* before in a zone west of UTC, and is later the same day in a zone east of it.
getFullYear(d, timeZone) ==
    IF timeZone > 0 /\ d.month = 1 /\ d.day = 1 THEN d.year - 1 ELSE d.year

\* Math.abs
abs(n) == IF n < 0 THEN 0 - n ELSE n

\* One row of supportDifference
Row(browser, aVersion, bVersion) ==
    [browser |-> browser, aVersion |-> aVersion, bVersion |-> bVersion]

\* baselineDifference: {yearDiff, aFirst}, or undefined
BaselineDifference(yearDiff, aFirst) ==
    [t |-> "object", yearDiff |-> yearDiff, aFirst |-> aFirst]
NoBaselineDifference == [t |-> "undefined"]

ComparisonResult(featureA, featureB, baselineDifference, supportDifference) ==
    [featureA |-> featureA, featureB |-> featureB,
     baselineDifference |-> baselineDifference, supportDifference |-> supportDifference]

\* A list of browsers that also names the mobile variants.
comparedBrowsers_withMobile ==
    <<"chrome", "chrome_android", "edge", "firefox", "firefox_android", "safari",
      "safari_ios">>

\* const browsers = ['chrome', 'edge', 'firefox', 'safari']
comparedBrowsers == <<"chrome", "edge", "firefox", "safari">>

\* A label that takes every truthy value for a version.
versionLabel_ofAnyTruthy(support) ==
    IF support.t \in {"string", "boolean"} /\ support.v \notin {"", "false"} THEN support.v
    ELSE "not supported"

\* typeof support === 'string' ? support : support ? 'supported' : 'not supported'
versionLabel(support) ==
    IF support.t = "string" THEN support.v
    ELSE IF support.t = "boolean" /\ support.v = "true" THEN "supported"
    ELSE "not supported"

\* feature.baseline?.high, as a condition
hasHigh(feature) == feature.baseline.t = "object" /\ feature.baseline.high # NoStr

\* The loop over the browsers
supportDifferenceOf(featureA, featureB) ==
    [i \in 1..Len(comparedBrowsers) |->
        Row(comparedBrowsers[i],
            versionLabel(featureA.support[comparedBrowsers[i]]),
            versionLabel(featureB.support[comparedBrowsers[i]]))]

\* A compareFeatures that answers a zero difference when a high date is missing.
compareFeatures_zeroByDefault(featureA, featureB, timeZone) ==
    ComparisonResult(featureA, featureB,
        IF hasHigh(featureA) /\ hasHigh(featureB)
        THEN LET yearA == getFullYear(DateOf(featureA.baseline.high), timeZone)
                 yearB == getFullYear(DateOf(featureB.baseline.high), timeZone)
             IN  BaselineDifference(abs(yearA - yearB), yearA < yearB)
        ELSE BaselineDifference(0, FALSE),
        supportDifferenceOf(featureA, featureB))

\* A compareFeatures whose aFirst also holds on a tie.
compareFeatures_firstOnTie(featureA, featureB, timeZone) ==
    ComparisonResult(featureA, featureB,
        IF hasHigh(featureA) /\ hasHigh(featureB)
        THEN LET yearA == getFullYear(DateOf(featureA.baseline.high), timeZone)
                 yearB == getFullYear(DateOf(featureB.baseline.high), timeZone)
             IN  BaselineDifference(abs(yearA - yearB), yearA <= yearB)
        ELSE NoBaselineDifference,
        supportDifferenceOf(featureA, featureB))

\* WebBaselineMCPServer.compareFeatures(featureA, featureB), run in a process whose
\* time zone is timeZone
compareFeatures(featureA, featureB, timeZone) ==
    ComparisonResult(featureA, featureB,
        IF hasHigh(featureA) /\ hasHigh(featureB)
        THEN LET yearA == getFullYear(DateOf(featureA.baseline.high), timeZone)
                 yearB == getFullYear(DateOf(featureB.baseline.high), timeZone)
             IN  BaselineDifference(abs(yearA - yearB), yearA < yearB)
        ELSE NoBaselineDifference,
        supportDifferenceOf(featureA, featureB))

\* const browsers = ['chrome', 'edge', 'firefox', 'safari'], of SSEServer
sseComparedBrowsers == <<"chrome", "edge", "firefox", "safari">>

\* A label that words a missing support differently from the stdio server.
sseVersionLabel_unsupported(support) ==
    IF support.t = "string" THEN support.v
    ELSE IF support.t = "boolean" /\ support.v = "true" THEN "supported"
    ELSE "unsupported"

\* The label of a support value, of SSEServer
sseVersionLabel(support) ==
    IF support.t = "string" THEN support.v
    ELSE IF support.t = "boolean" /\ support.v = "true" THEN "supported"
    ELSE "not supported"

\* SSEServer.compareFeatures(featureA, featureB), run in a process whose time zone
\* is timeZone
sseCompareFeatures(featureA, featureB, timeZone) ==
    ComparisonResult(featureA, featureB,
        IF hasHigh(featureA) /\ hasHigh(featureB)
        THEN LET yearA == getFullYear(DateOf(featureA.baseline.high), timeZone)
                 yearB == getFullYear(DateOf(featureB.baseline.high), timeZone)
             IN  BaselineDifference(abs(yearA - yearB), yearA < yearB)
        ELSE NoBaselineDifference,
        [i \in 1..Len(sseComparedBrowsers) |->
            Row(sseComparedBrowsers[i],
                sseVersionLabel(featureA.support[sseComparedBrowsers[i]]),
                sseVersionLabel(featureB.support[sseComparedBrowsers[i]]))])

----------------------------------------------------------------------------
(* The calls a transport makes, one at a time (the event loop runs one     *)
(* handler's synchronous code at a time), and the inputs they are tried on.*)

\* 'CSS :has()'
In_CssHasParenMixed == <<"C","S","S"," ",":","h","a","s","(",")">>
\* '  css has '
In_paddedCssHas == <<" "," ","c","s","s"," ","h","a","s"," ">>
\* 'web usb\t'
In_paddedWebUsb == <<"w","e","b"," ","u","s","b","\t">>
\* 'does-not-exist'
In_doesNotExist == <<"d","o","e","s","-","n","o","t","-","e","x","i","s","t">>
\* '   '
Q_spaces == <<" "," "," ">>
\* '\t\n '
Q_tabNewline == <<"\t","\n"," ">>
\* 'css'
Q_css == <<"c","s","s">>
\* ' CSS '
Q_paddedCSS == <<" ","C","S","S"," ">>
\* 'api'
Q_api == <<"a","p","i">>
\* 'x'
Q_x == <<"x">>
\* 'zzz'
Q_zzz == <<"z","z","z">>

\* Every other letter in upper case
alternatingCase(s) ==
    [i \in 1..Len(s) |-> IF i % 2 = 1 THEN toUpperCaseChar(s[i]) ELSE toLowerCaseChar(s[i])]

Aliases == MapKeys(normalizations)
SampleIds == MapKeys(getSampleBCDData)

\* The names getFeature is asked for.
FeatureNames ==
    SampleIds \cup Aliases
    \cup {toUpperCase(a) : a \in Aliases} \cup {alternatingCase(a) : a \in Aliases}
    \cup {toUpperCase(id) : id \in SampleIds}
    \cup {In_CssHasParenMixed, In_paddedCssHas, In_paddedWebUsb, In_doesNotExist, NoStr,
          ExtId_has, ExtId_grid, ExtId_broken, ExtId_later,
          Key_toString, Key_constructor, Key_proto}

\* The queries findFeatures is asked.
Queries == {NoStr, Q_spaces, Q_tabNewline, Q_css, Q_paddedCSS, Q_api, Q_x, Q_zzz}

MaxLimit == 2

\* The limits findFeatures is given: none, the small ones, and one above the default.
Limits == {Omitted} \cup 0..MaxLimit \cup {DefaultLimit + 2}

\* The years getBaselineFeatures is asked for.
Years == {1999, 2022, 2023, 2024, 2025}

\* Date.now() counts milliseconds since 1970, far more than one TTL; the model's
\* clock starts two TTLs after its zero and advances by half a TTL.
StartTime == 2 * CACHE_TTL
TickStep == CACHE_TTL \div 2
MaxTicks == 3

\* The offsets getTimezoneOffset can give, in minutes west of UTC: Tokyo, UTC and
\* Los Angeles.
TimeZoneOffsets == {0 - 540, 0, 480}

\* '2024-01-01'
High_newYear == <<"2","0","2","4","-","0","1","-","0","1">>
\* '2023-06-01'
Low_newYear == <<"2","0","2","3","-","0","6","-","0","1">>

\* The records compareFeatures is tried on: the bundled ones, those loadBCDData maps
\* from the external tables, one whose high date is the first day of a year, and
\* one whose baseline has a low date only.
CompareRecords ==
    {getSampleBCDData[i].val : i \in 1..Len(getSampleBCDData)}
    \cup {mapped(ExtFeatures[i].key, ExtFeatures[i].val) : i \in 1..Len(ExtFeatures)}
    \cup {mapped(ExtId_later, RawLater),
          FeatureData(<<"n","e","w">>, NoStr, "", "",
              Baseline(High_newYear, Low_newYear),
              Support(Version("120"), SupportTrue, SupportFalse, SupportAbsent),
              Status("undefined", "true", "undefined")),
          FeatureData(<<"l","o","w">>, NoStr, "", "",
              Baseline(NoStr, Low_newYear), EmptySupport,
              Status("undefined", "undefined", "undefined"))}

Ret(op, name, num, path, value, list) ==
    [op |-> op, name |-> name, num |-> num, path |-> path, value |-> value, list |-> list]

Idle == Ret("idle", NoStr, 0, "", Undefined, <<>>)

\* The answer of a comparison: the two records given and what each server's
\* compareFeatures returned for them.
CompareRet(featureA, featureB, timeZone, mcp, sse) ==
    [op |-> "compareFeatures", name |-> NoStr, num |-> 0, path |-> "",
     value |-> Undefined, list |-> <<>>,
     featureA |-> featureA, featureB |-> featureB, timeZone |-> timeZone,
     mcp |-> mcp, sse |-> sse]

Init ==
    /\ bcdCache = <<>>
    /\ baselineCache = <<>>
    /\ lastUpdate = 0
    /\ featuresMap = NoTable
    /\ groups = ""
    /\ browsers = ""
    /\ snapshots = ""
    /\ now = StartTime
    /\ ret = Idle
    /\ pending = <<>>
    /\ clients = <<>>
    /\ connections = <<>>
    /\ eventCounter = 0

\* await dataLoader.loadBCDData(), import('web-features') answering imp
LoadBCDData(imp) ==
    /\ ret = Idle
    /\ LET r == loadBCDDataResult(imp)
       IN  /\ bcdCache' = r.bcdCache
           /\ lastUpdate' = r.lastUpdate
           /\ featuresMap' = r.featuresMap
           /\ groups' = r.groups
           /\ browsers' = r.browsers
           /\ snapshots' = r.snapshots
           /\ ret' = Ret("loadBCDData", NoStr, 0, r.path, Undefined, <<>>)
    /\ UNCHANGED <<baselineCache, now, pending, streams>>

\* await dataLoader.loadBaselineData()
LoadBaselineData ==
    /\ ret = Idle
    /\ baselineCache' = loadBaselineDataResult
    /\ ret' = Ret("loadBaselineData", NoStr, 0, "", Undefined, <<>>)
    /\ UNCHANGED <<bcdCache, lastUpdate, featuresMap, groups, browsers, snapshots, now,
                   pending, streams>>

\* dataLoader.getFeature(name)
GetFeature(name) ==
    /\ ret = Idle
    /\ ret' = Ret("getFeature", name, 0, "", getFeature(name), <<>>)
    /\ UNCHANGED <<store, now, pending, streams>>

\* dataLoader.getBaselineFeatures(year)
GetBaselineFeatures(year) ==
    /\ ret = Idle
    /\ ret' = Ret("getBaselineFeatures", NoStr, year, "", Undefined, getBaselineFeatures(year))
    /\ UNCHANGED <<store, now, pending, streams>>

\* dataLoader.findFeatures(query, limit)
FindFeatures(query, limit) ==
    /\ ret = Idle
    /\ ret' = Ret("findFeatures", query, limit, "", Undefined, findFeatures(query, limit))
    /\ UNCHANGED <<store, now, pending, streams>>

\* A compareFeatures that also stamps the loader.
CompareFeatures_stamping(featureA, featureB, timeZone) ==
    /\ ret = Idle
    /\ ret' = CompareRet(featureA, featureB, timeZone,
                         compareFeatures(featureA, featureB, timeZone),
                         sseCompareFeatures(featureA, featureB, timeZone))
    /\ lastUpdate' = now
    /\ UNCHANGED <<bcdCache, baselineCache, featuresMap, groups, browsers, snapshots, now,
                   pending, streams>>

\* this.compareFeatures(featureA, featureB), of either server, in a process whose
\* time zone is timeZone
CompareFeatures(featureA, featureB, timeZone) ==
    /\ ret = Idle
    /\ ret' = CompareRet(featureA, featureB, timeZone,
                         compareFeatures(featureA, featureB, timeZone),
                         sseCompareFeatures(featureA, featureB, timeZone))
    /\ UNCHANGED <<store, now, pending, streams>>

\* The caller takes the result; the next call can start.
Return ==
    /\ ret # Idle
    /\ ret' = Idle
    /\ UNCHANGED <<store, now, pending, streams>>

\* Time passes between calls.
Tick ==
    /\ ret = Idle
    /\ now + TickStep <= StartTime + MaxTicks * TickStep
    /\ now' = now + TickStep
    /\ UNCHANGED <<store, ret, pending, streams>>

Next ==
    \/ \E imp \in Imports : LoadBCDData(imp)
    \/ LoadBaselineData
    \/ \E name \in FeatureNames : GetFeature(name)
    \/ \E year \in Years : GetBaselineFeatures(year)
    \/ \E query \in Queries, limit \in Limits : FindFeatures(query, limit)
    \/ Return
    \/ Tick

Spec == Init /\ [][Next]_vars

\* The records the feature store holds
StoredFeatures == {bcdCache[i].val : i \in 1..Len(bcdCache)}

\* A table that keys one feature by a name the alias table also knows ('web usb').
ExtAliased ==
    << Entry(Alias_webUsb, RawGrid), Entry(ExtId_has, RawHas) >>

\* The lookups of getFeature on top of the loader, where import('web-features')
\* fails or finds one of three tables, in one of which an id is also an alias of
\* another id.
NextLookup ==
    \/ \E imp \in {ImportRejected, ModuleNamed(ExtAliased), ModuleNamed(ExtFeatures),
                   ModuleNamed(ExtMalformed)} : LoadBCDData(imp)
    \/ \E name \in FeatureNames : GetFeature(name)
    \/ Return
    \/ Tick

SpecLookup == Init /\ [][NextLookup]_vars

\* The comparison engine on top of the loader: loads, and comparisons of the
\* records of the store and of CompareRecords, in any time zone.
NextCompare ==
    \/ \E imp \in Imports : LoadBCDData(imp)
    \/ LoadBaselineData
    \/ \E featureA \in CompareRecords \cup StoredFeatures,
          featureB \in CompareRecords \cup StoredFeatures,
          timeZone \in TimeZoneOffsets :
           CompareFeatures(featureA, featureB, timeZone)
    \/ Return

SpecCompare == Init /\ [][NextCompare]_vars

----------------------------------------------------------------------------
(* Requests that overlap.  A handler awaits loadBCDData and then looks up; *)
(* loadBCDData suspends once, at await import('web-features'), and other   *)
(* requests run while it is suspended.  pending holds the requests in      *)
(* flight: those suspended at the import, and those whose load has         *)
(* returned and whose lookup has not run yet.                              *)

MaxRequests == 2

\* The names requests look up.
LookupNames == {Id_cssHasSelector, ExtId_has}

\* The import field of a request whose load returned at the TTL gate.
NoImport == [resolved |-> FALSE, gate |-> "fresh"]

\* A request in flight: its stage ("import" or "loaded"), what import() answers it,
\* and whether another load completed while it was suspended.
Request(stage, imp, overlapped) == [stage |-> stage, imp |-> imp, overlapped |-> overlapped]

\* The answers of import() to the requests in flight.
PendingImports == {pending[i].imp : i \in 1..Len(pending)} \ {NoImport}

\* pending without its i-th request
Without(i) == [j \in 1..(Len(pending) - 1) |-> IF j < i THEN pending[j] ELSE pending[j + 1]]

\* A request calls loadBCDData: it returns at the gate, or calls import() and
\* suspends.  Module resolution answers overlapping imports alike.
LoadBCDDataCalled(imp) ==
    /\ Len(pending) < MaxRequests
    /\ PendingImports \subseteq {imp}
    /\ pending' = Append(pending,
                      IF cacheIsFresh THEN Request("loaded", NoImport, FALSE)
                      ELSE Request("import", imp, FALSE))
    /\ UNCHANGED <<store, now, ret, streams>>

\* import() answers the i-th request: the rest of its loadBCDData runs.
LoadBCDDataResumes(i) ==
    /\ pending[i].stage = "import"
    /\ LET r == loadBCDDataAfterImport(pending[i].imp)
       IN  /\ bcdCache' = r.bcdCache
           /\ lastUpdate' = r.lastUpdate
           /\ featuresMap' = r.featuresMap
           /\ groups' = r.groups
           /\ browsers' = r.browsers
           /\ snapshots' = r.snapshots
           /\ ret' = [Ret("loadBCDData", NoStr, 0, r.path, Undefined, <<>>)
                         EXCEPT !.num = IF pending[i].overlapped THEN 1 ELSE 0]
    /\ pending' = [j \in 1..Len(pending) |->
                      IF j = i THEN Request("loaded", pending[i].imp, FALSE)
                      ELSE IF pending[j].stage = "import"
                      THEN Request("import", pending[j].imp, TRUE)
                      ELSE pending[j]]
    /\ UNCHANGED <<baselineCache, now, streams>>

\* The answer of a request's lookup, and the import its own load was answered.
LookupRet(name, value, imp) ==
    [op |-> "lookup", name |-> name, num |-> 0, path |-> "", value |-> value,
     list |-> <<>>, imp |-> imp]

\* The i-th request, its load done, looks its name up and is answered.
RequestLooksUp(i, name) ==
    /\ pending[i].stage = "loaded"
    /\ ret' = LookupRet(name, getFeature(name), pending[i].imp)
    /\ pending' = Without(i)
    /\ UNCHANGED <<store, now, streams>>

NextConcurrent ==
    \/ \E imp \in Imports : LoadBCDDataCalled(imp)
    \/ \E i \in 1..Len(pending) : LoadBCDDataResumes(i)
    \/ \E i \in 1..Len(pending), name \in LookupNames : RequestLooksUp(i, name)
    \/ Return
    \/ Tick

SpecConcurrent == Init /\ [][NextConcurrent]_vars

----------------------------------------------------------------------------
(* The request handlers of the two servers.  Each awaits the loader and    *)
(* then looks up, searches or compares; what it answers is computed in the *)
(* store its loads have left.                                              *)

\* What a handler answers: a result, a "not found" value, or an error (an exception
\* that was thrown and caught on the way out); whether compareFeatures was called,
\* and the values the lookups gave.
Answer(outcome, engine, dataA, dataB, payload) ==
    [outcome |-> outcome, engine |-> engine, dataA |-> dataA, dataB |-> dataB,
     payload |-> payload]

\* compareFeatures reads feature.support[browser]: a value with no support property
\* makes it throw a TypeError.
readsAsFeature(v) == v.kind = "FeatureData" \/ (v.kind = "raw" /\ v.support.present)

\* The value as compareFeatures reads it through FeatureData's properties.
asFeatureData(v) ==
    IF v.kind = "FeatureData" THEN v
    ELSE FeatureData(v.name, v.description, v.mdn_url, "", NoBaseline, v.support.of,
             Status(v.experimental, v.standard_track, v.deprecated))

\* The body of getFeatureSupport after the load, of either server: the "not found"
\* text when getFeature gives nothing, the feature's fields otherwise.
getFeatureSupport(featureName) ==
    LET feature == getFeature(featureName)
    IN  IF ~Truthy(feature)
        THEN Answer("not found", FALSE, feature, Undefined,
                 [i \in 1..Len(getAllFeatures) |-> getAllFeatures[i].name])
        ELSE Answer("result", FALSE, feature, Undefined, feature)

\* The body of compareSupport after the load, of either server, and of the route
\* /api/compare: "not found" when a lookup gives nothing, the comparison otherwise;
\* transport selects the server whose compareFeatures is called.
compareSupport(featureA, featureB, transport, timeZone) ==
    LET dataA == getFeature(featureA)
        dataB == getFeature(featureB)
    IN  IF ~Truthy(dataA) \/ ~Truthy(dataB)
        THEN Answer("not found", FALSE, dataA, dataB, Undefined)
        ELSE IF ~readsAsFeature(dataA) \/ ~readsAsFeature(dataB)
        THEN Answer("error", TRUE, dataA, dataB, Undefined)
        ELSE Answer("result", TRUE, dataA, dataB,
                 IF transport = "stdio"
                 THEN compareFeatures(asFeatureData(dataA), asFeatureData(dataB), timeZone)
                 ELSE sseCompareFeatures(asFeatureData(dataA), asFeatureData(dataB),
                          timeZone))

\* The body of listBaselineFeatures after the load, of either server.
listBaselineFeatures(year) ==
    IF Len(getBaselineFeatures(year)) = 0
    THEN Answer("not found", FALSE, Undefined, Undefined, <<>>)
    ELSE Answer("result", FALSE, Undefined, Undefined, getBaselineFeatures(year))

\* The tools handleToolCall of SSEServer dispatches.
sseTools == {"getFeatureSupport", "listBaselineFeatures", "compareSupport"}

\* The switch of handleToolCall; a name that is no case throws 'Unknown tool'.
handleToolCall(name, featureA, featureB, year, timeZone) ==
    CASE name = "getFeatureSupport" -> getFeatureSupport(featureA)
      [] name = "listBaselineFeatures" -> listBaselineFeatures(year)
      [] name = "compareSupport" ->
             compareSupport(featureA, featureB, "sse", timeZone)
      [] OTHER -> Answer("error", FALSE, Undefined, Undefined, Undefined)

\* The answer of a handler: the transport and the tool or route, the tables it
\* reads, its arguments and what it answered.
HandlerRet(transport, tool, reads, featureA, featureB, num, answer) ==
    [op |-> "handler", name |-> featureA, num |-> num, path |-> "", value |-> Undefined,
     list |-> <<>>, transport |-> transport, tool |-> tool, reads |-> reads,
     featureA |-> featureA, featureB |-> featureB, answer |-> answer]

\* The names the handlers are asked for.
HandlerNames ==
    {Id_cssHasSelector, Id_webusb, toUpperCase(Alias_offscreenCanvas), In_doesNotExist,
     Key_toString, ExtId_later}

\* The tool names tools/call is given.
ToolNames == sseTools \cup {"findFeatureId", "noSuchTool"}

\* The handlers: the tools of the stdio server, POST / with tools/call, and the
\* REST routes.
Handlers ==
    {<<"stdio", "getFeatureSupport">>, <<"stdio", "findFeatureId">>,
     <<"stdio", "listBaselineFeatures">>, <<"stdio", "compareSupport">>,
     <<"tools/call", "handleToolCall">>,
     <<"rest", "/api/features">>, <<"rest", "/api/baseline">>, <<"rest", "/api/compare">>}

\* A table that lets /api/baseline answer without a load.
awaited_notForRestBaseline(handler) ==
    CASE handler \in {<<"stdio", "listBaselineFeatures">>} -> {"baseline"}
      [] handler = <<"rest", "/api/baseline">> -> {}
      [] handler = <<"tools/call", "handleToolCall">> -> {"features", "baseline"}
      [] OTHER -> {"features"}

\* The loads a handler awaits before anything else: loadBCDData ("features"),
\* loadBaselineData ("baseline"), or both.
awaited(handler) ==
    CASE handler \in {<<"stdio", "listBaselineFeatures">>, <<"rest", "/api/baseline">>} ->
             {"baseline"}
      [] handler = <<"tools/call", "handleToolCall">> -> {"features", "baseline"}
      [] OTHER -> {"features"}

\* A handler suspended at its await, and the loads that were run for it.
Awaiting(handler, loads) ==
    [op |-> "awaiting", name |-> NoStr, num |-> 0, path |-> "", value |-> Undefined,
     list |-> <<>>, handler |-> handler, loads |-> loads]

\* A request arrives and its handler awaits its loads; import() answers imp.
HandlerAwaitsLoads(handler, imp) ==
    /\ ret = Idle
    /\ IF "features" \in awaited(handler)
       THEN LET r == loadBCDDataResult(imp)
            IN  /\ bcdCache' = r.bcdCache
                /\ lastUpdate' = r.lastUpdate
                /\ featuresMap' = r.featuresMap
                /\ groups' = r.groups
                /\ browsers' = r.browsers
                /\ snapshots' = r.snapshots
       ELSE UNCHANGED <<bcdCache, lastUpdate, featuresMap, groups, browsers, snapshots>>
    /\ IF "baseline" \in awaited(handler)
       THEN baselineCache' = loadBaselineDataResult
       ELSE UNCHANGED baselineCache
    /\ ret' = Awaiting(handler, awaited(handler))
    /\ UNCHANGED <<now, pending, streams>>

\* The handler of ret resumes after its await.
Resumes(transport, tool) == ret.op = "awaiting" /\ ret.handler = <<transport, tool>>

\* stdio: the tool getFeatureSupport
McpGetFeatureSupport(featureName) ==
    /\ Resumes("stdio", "getFeatureSupport")
    /\ ret' = HandlerRet("stdio", "getFeatureSupport", ret.loads, featureName, NoStr, 0,
                  getFeatureSupport(featureName))
    /\ UNCHANGED <<store, now, pending, streams>>

\* stdio: the tool findFeatureId
McpFindFeatureId(query, limit) ==
    /\ Resumes("stdio", "findFeatureId")
    /\ ret' = HandlerRet("stdio", "findFeatureId", ret.loads, query, NoStr, limit,
                  Answer("result", FALSE, Undefined, Undefined, findFeatures(query, limit)))
    /\ UNCHANGED <<store, now, pending, streams>>

\* stdio: the tool listBaselineFeatures
McpListBaselineFeatures(year) ==
    /\ Resumes("stdio", "listBaselineFeatures")
    /\ ret' = HandlerRet("stdio", "listBaselineFeatures", ret.loads, NoStr, NoStr, year,
                  listBaselineFeatures(year))
    /\ UNCHANGED <<store, now, pending, streams>>

\* stdio: the tool compareSupport, in a process whose time zone is timeZone
McpCompareSupport(featureA, featureB, timeZone) ==
    /\ Resumes("stdio", "compareSupport")
    /\ ret' = HandlerRet("stdio", "compareSupport", ret.loads, featureA, featureB, 0,
                  compareSupport(featureA, featureB, "stdio", timeZone))
    /\ UNCHANGED <<store, now, pending, streams>>

\* The arguments a tool call carries, by the tool's name.
ToolArguments(name) ==
    CASE name = "getFeatureSupport" ->
             {[featureA |-> a, featureB |-> NoStr, year |-> 0] : a \in HandlerNames}
      [] name = "compareSupport" ->
             {[featureA |-> a, featureB |-> b, year |-> 0] :
                  a \in HandlerNames, b \in HandlerNames}
      [] name = "listBaselineFeatures" ->
             {[featureA |-> NoStr, featureB |-> NoStr, year |-> y] : y \in Years}
      [] OTHER -> {[featureA |-> NoStr, featureB |-> NoStr, year |-> 0]}

\* HTTP POST / with method tools/call: handleToolCall, its two loads done, dispatches
\* on the tool's name.
SseToolCall(name, args, timeZone) ==
    /\ Resumes("tools/call", "handleToolCall")
    /\ ret' = HandlerRet("tools/call", name, ret.loads, args.featureA, args.featureB,
                  args.year,
                  handleToolCall(name, args.featureA, args.featureB, args.year, timeZone))
    /\ UNCHANGED <<store, now, pending, streams>>

\* GET /api/features/:name
RestFeature(name) ==
    /\ Resumes("rest", "/api/features")
    /\ ret' = HandlerRet("rest", "/api/features", ret.loads, name, NoStr, 0,
                  IF ~Truthy(getFeature(name))
                  THEN Answer("not found", FALSE, Undefined, Undefined, Undefined)
                  ELSE Answer("result", FALSE, getFeature(name), Undefined,
                           getFeature(name)))
    /\ UNCHANGED <<store, now, pending, streams>>

\* GET /api/baseline/:year; year is the text of the path parameter
RestBaseline(year) ==
    /\ Resumes("rest", "/api/baseline")
    /\ ret' = HandlerRet("rest", "/api/baseline", ret.loads, NoStr, NoStr, parseInt(year),
                  Answer("result", FALSE, Undefined, Undefined,
                      getBaselineFeatures(parseInt(year))))
    /\ UNCHANGED <<store, now, pending, streams>>

\* GET /api/compare/:featureA/:featureB, in a process whose time zone is timeZone
RestCompare(featureA, featureB, timeZone) ==
    /\ Resumes("rest", "/api/compare")
    /\ ret' = HandlerRet("rest", "/api/compare", ret.loads, featureA, featureB, 0,
                  compareSupport(featureA, featureB, "sse", timeZone))
    /\ UNCHANGED <<store, now, pending, streams>>

\* The tools the stdio server lists (ListToolsRequestSchema), in order.
mcpListedTools ==
    <<"getFeatureSupport", "findFeatureId", "listBaselineFeatures", "compareSupport">>

\* The cases of the switch of the stdio server's CallToolRequestSchema handler.
mcpTools == {"getFeatureSupport", "findFeatureId", "listBaselineFeatures", "compareSupport"}

\* The tools handleMCPRequest lists for tools/list, in order.
sseListedTools == <<"getFeatureSupport", "listBaselineFeatures", "compareSupport">>

\* A tool listing: the stdio server's ListToolsRequestSchema handler, or POST / with
\* method tools/list. Neither loads anything; the answer names the transport (in
\* path) and the tools listed.
ListTools(transport) ==
    /\ ret = Idle
    /\ ret' = Ret("tools/list", NoStr, 0, transport, Undefined,
                  IF transport = "stdio" THEN mcpListedTools ELSE sseListedTools)
    /\ UNCHANGED <<store, now, pending, streams>>

\* stdio: a call naming a tool that is no case of the switch takes the default
\* branch; the throw is caught and answered as the text 'Error: Unknown tool: ...'.
McpUnknownTool(name) ==
    /\ ret = Idle
    /\ name \notin mcpTools
    /\ ret' = HandlerRet("stdio", name, {}, NoStr, NoStr, 0,
                  Answer("error", FALSE, Undefined, Undefined, Undefined))
    /\ UNCHANGED <<store, now, pending, streams>>

NextServer ==
    \/ \E transport \in {"stdio", "tools/call"} : ListTools(transport)
    \/ \E name \in ToolNames : McpUnknownTool(name)
    \/ \E handler \in Handlers, imp \in Imports : HandlerAwaitsLoads(handler, imp)
    \/ \E featureName \in HandlerNames : McpGetFeatureSupport(featureName)
    \/ \E query \in Queries, limit \in Limits : McpFindFeatureId(query, limit)
    \/ \E year \in Years : McpListBaselineFeatures(year)
    \/ \E featureA \in HandlerNames, featureB \in HandlerNames,
          timeZone \in TimeZoneOffsets :
           McpCompareSupport(featureA, featureB, timeZone)
    \/ \E name \in ToolNames, timeZone \in TimeZoneOffsets :
           \E args \in ToolArguments(name) : SseToolCall(name, args, timeZone)
    \/ \E name \in HandlerNames : RestFeature(name)
    \/ \E year \in Years : RestBaseline(decimal(year))
    \/ \E featureA \in HandlerNames, featureB \in HandlerNames,
          timeZone \in TimeZoneOffsets :
           RestCompare(featureA, featureB, timeZone)
    \/ Return

SpecServer == Init /\ [][NextServer]_vars

----------------------------------------------------------------------------
(* The event streams of SSEServer (src/src/sse-server.ts): GET / with      *)
(* Accept: text/event-stream, GET /events, the close of a stream, and      *)
(* broadcastUpdate.  Each route handler is synchronous.                    *)

\* The streams opened in one run.
MaxConnections == 3

\* The values of the header Mcp-Session-Id: absent (""), or one of two sessions.
SessionIds == {"", "session-1", "session-2"}

\* A key of clients: the session id, `client-${Date.now()}` or `legacy-${Date.now()}`.
ClientId(prefix, sessionId, at) == [prefix |-> prefix, sessionId |-> sessionId, at |-> at]

\* clients.delete(k)
MapDelete(m, k) == SelectSeq(m, LAMBDA e : e.key # k)

\* GET /: documentation when the request does not accept text/event-stream; else
\* the response is registered under the session id, or under client-<now> when
\* the header is absent, and the initial event is written.
SseStream(sessionId, acceptsEventStream) ==
    /\ ret = Idle
    /\ Len(connections) < MaxConnections
    /\ IF ~acceptsEventStream
       THEN UNCHANGED streams
       ELSE LET clientId == IF sessionId # "" THEN ClientId("", sessionId, 0)
                            ELSE ClientId("client-", "", now)
            IN  /\ clients' = MapSet(clients, clientId, Len(connections) + 1)
                /\ connections' = Append(connections, [clientId |-> clientId, open |-> TRUE])
                /\ eventCounter' = eventCounter + 1
    /\ UNCHANGED <<store, now, ret, pending>>

\* GET /events: the response is registered under legacy-<now>.
EventsStream ==
    /\ ret = Idle
    /\ Len(connections) < MaxConnections
    /\ LET legacyClientId == ClientId("legacy-", "", now)
       IN  /\ clients' = MapSet(clients, legacyClientId, Len(connections) + 1)
           /\ connections' = Append(connections, [clientId |-> legacyClientId, open |-> TRUE])
    /\ UNCHANGED <<store, now, ret, pending, eventCounter>>

\* The stream c closes: its 'close' handler deletes the key it registered under.
StreamCloses(c) ==
    /\ ret = Idle
    /\ connections[c].open
    /\ connections' = [connections EXCEPT ![c].open = FALSE]
    /\ clients' = MapDelete(clients, connections[c].clientId)
    /\ UNCHANGED <<store, now, ret, pending, eventCounter>>

\* broadcastUpdate(data): the message is written to every registered response.  A
\* registered response is an open one (a close deletes its key), so no write
\* throws and the catch branch deletes nothing; the answer lists the streams written
\* to, in order.
BroadcastUpdate ==
    /\ ret = Idle
    /\ ret' = Ret("broadcastUpdate", NoStr, 0, "", Undefined,
                  [i \in 1..Len(clients) |-> clients[i].val])
    /\ UNCHANGED <<store, now, pending, streams>>

NextStreams ==
    \/ \E sessionId \in SessionIds, acceptsEventStream \in BOOLEAN :
           SseStream(sessionId, acceptsEventStream)
    \/ EventsStream
    \/ \E c \in 1..Len(connections) : StreamCloses(c)
    \/ BroadcastUpdate
    \/ Return
    \/ Tick

SpecStreams == Init /\ [][NextStreams]_vars

----------------------------------------------------------------------------
(* Properties of loadBCDData                                               *)

\* The id sets of the external tables import() can answer with.
ExternalIdSets == {MapKeys(ExtFeatures), MapKeys(ExtMalformed), MapKeys(ExtMany)}

\* C1: after any load the ids in the feature store are exactly the ids of one
\* source: all the bundled sample ids, or all the ids of one external table (or
\* none, when the source had no table); never a mixture or a partial subset.
C1_OneSourcePopulatesStore ==
    ret.op = "loadBCDData" =>
        \/ MapKeys(bcdCache) = SampleIds
        \/ MapKeys(bcdCache) \in ExternalIdSets
        \/ MapKeys(bcdCache) = {}

\* C2: whatever import() answers, loadBCDData returns and leaves the store
\* populated; when the package is absent or reading it failed, the store holds the
\* bundled records, offscreen-canvas with support.safari = "16.4".
C2_LoadLeavesStorePopulated ==
    ret.op = "loadBCDData" =>
        /\ bcdCache # <<>>
        /\ ret.path \in {"sample", "catch"} =>
              /\ \A e \in {getSampleBCDData[i] : i \in 1..Len(getSampleBCDData)} :
                     MapGet(bcdCache, e.key) = e.val
              /\ MapGet(bcdCache, Id_offscreenCanvas).support["safari"] = Version("16.4")

\* C3: a load that starts less than one TTL after lastUpdate, with a non-empty
\* store, changes nothing: not the feature table, not the handles of the external
\* dataset, not lastUpdate.
C3_LoadWithinTTLIsNoOp ==
    [][(ret'.op = "loadBCDData" /\ now - lastUpdate < 3600000 /\ Len(bcdCache) > 0)
          => UNCHANGED store]_vars

\* C3 witness: a load answered from the cache, half a TTL after the load that
\* filled it.
C3_Witness ==
    /\ ret.op = "loadBCDData"
    /\ ret.path = "fresh"
    /\ now = lastUpdate + TickStep
    /\ bcdCache # <<>>

\* C4: lastUpdate is set to the current time exactly when the load populated the
\* store without an error, and is left as it was otherwise (the failure path, the
\* no-op).
C4_LastUpdateOnlyOnSuccess ==
    [][ret'.op = "loadBCDData" =>
          IF ret'.path \in {"external", "sample"}
          THEN lastUpdate' = now
          ELSE lastUpdate' = lastUpdate]_vars

----------------------------------------------------------------------------
(* Properties of the lookups                                               *)

\* The canonical id the alias table gives for an alias in lower case.
CanonicalOf(alias) == MapGet(normalizations, alias)

C6_NormalizeLowercasesAndTrims ==
    ret.op = "getFeature" =>
        normalizeFeatureName(ret.name) =
            IF trim(toLowerCase(ret.name)) \in Aliases
            THEN Str(CanonicalOf(trim(toLowerCase(ret.name))))
            ELSE Str(ret.name)

\* C6, amended: normalize lower-cases the name, and does not trim it, before it
\* consults the alias table: an alias in any letter case normalizes to its canonical
\* id; constructor and __proto__, in any letter case, normalize to the member the
\* table object inherits under that name; every other name, an alias with white
\* space around it included, normalizes to itself.
C6_NormalizeLowercasesOnly ==
    ret.op = "getFeature" =>
        normalizeFeatureName(ret.name) =
            IF toLowerCase(ret.name) \in Aliases
            THEN Str(CanonicalOf(toLowerCase(ret.name)))
            ELSE IF toLowerCase(ret.name) \in {Key_constructor, Key_proto}
            THEN Inherited(toLowerCase(ret.name))
            ELSE Str(ret.name)

\* C6 witness: "  css has " normalizes to itself and is not found, in a store that
\* holds css-has-selector.
C6_Witness ==
    /\ ret.op = "getFeature"
    /\ ret.name = In_paddedCssHas
    /\ normalizeFeatureName(ret.name) = Str(In_paddedCssHas)
    /\ MapHas(bcdCache, Id_cssHasSelector)
    /\ ret.value = Undefined

\* The records the store holds: the mapped ones and the raw ones of the table.
StoreRecords ==
    {bcdCache[i].val : i \in 1..Len(bcdCache)}
    \cup {featuresMap.entries[i].val : i \in 1..Len(featuresMap.entries)}

StoreKeys == MapKeys(bcdCache) \cup MapKeys(featuresMap.entries)

\* C7: getFeature answers absent for a name that is no key of the store, as it is
\* and normalized; an answer that is not absent is a record the store holds; the
\* store is left as it was.
C7_GetFeatureAbsentOrStored ==
    [][ret'.op = "getFeature" =>
          /\ ( /\ ret'.name \notin StoreKeys
               /\ toLowerCase(ret'.name) \notin Aliases ) => ret'.value = Undefined
          /\ ret'.value # Undefined => ret'.value \in StoreRecords
          /\ UNCHANGED store]_vars

\* The entries of the bundled baseline data, of every year.
SampleBaselineEntries ==
    UNION {{e.val[i] : i \in 1..Len(e.val)} :
              e \in {getSampleBaselineData[j] : j \in 1..Len(getSampleBaselineData)}}

\* C8: once the baseline data is loaded, getBaselineFeatures(year) answers with
\* exactly the bundled entries of that year, each once: one entry, for
\* css-has-selector, for 2024 and none for 1999; before it is loaded, with none.
C8_BaselineFeaturesOfExactYear ==
    ret.op = "getBaselineFeatures" =>
        /\ \A i \in 1..Len(ret.list) : ret.list[i].year = ret.num
        /\ {ret.list[i] : i \in 1..Len(ret.list)} =
              IF baselineCache = <<>> THEN {}
              ELSE {e \in SampleBaselineEntries : e.year = ret.num}
        /\ Cardinality({ret.list[i] : i \in 1..Len(ret.list)}) = Len(ret.list)
        /\ (baselineCache # <<>> /\ ret.num = 2024) =>
              /\ Len(ret.list) = 1
              /\ ret.list[1].name = Id_cssHasSelector
        /\ ret.num = 1999 => ret.list = <<>>

\* C8 witness: the two entries of 2022, after the baseline data was loaded.
C8_Witness ==
    /\ ret.op = "getBaselineFeatures"
    /\ ret.num = 2022
    /\ Len(ret.list) = 2

\* C9: a query that is empty or only white space gets the empty list, whatever the
\* store and the limit.
C9_EmptyQueryFindsNothing ==
    (ret.op = "findFeatures" /\ trim(ret.name) = <<>>) => ret.list = <<>>

\* C9 witness: a white-space query with a limit of 2 on a store that holds records.
C9_Witness ==
    /\ ret.op = "findFeatures"
    /\ ret.name = Q_spaces
    /\ ret.num = 2
    /\ bcdCache # <<>>
    /\ ret.list = <<>>

\* The number of records of the store a query matches, by the name, id and
\* description a hit carries.
Matching(query) ==
    LET entries == IF featuresMap.present THEN featuresMap.entries ELSE bcdCache
    IN  {i \in 1..Len(entries) :
            includes(candidate(entries[i].key, entries[i].val).hay, trim(toLowerCase(query)))}

\* C10: findFeatures answers with at most limit hits, and with at most 10 when no
\* limit is given.
C10_AtMostLimitHits ==
    ret.op = "findFeatures" =>
        Len(ret.list) <= (IF ret.num = Omitted THEN 10 ELSE ret.num)

\* C10 witness: no limit given and more than 10 records match: 10 hits.
C10_Witness ==
    /\ ret.op = "findFeatures"
    /\ ret.num = Omitted
    /\ Cardinality(Matching(ret.name)) > 10
    /\ Len(ret.list) = 10

\* The dataset findFeatures goes through, in its iteration order.
Dataset == IF featuresMap.present THEN featuresMap.entries ELSE bcdCache

\* The extended search fields the data source gives for an entry.
SearchFields(e) ==
    IF featuresMap.present /\ Truthy(e.val) THEN e.val.compat_features ELSE <<>>

\* The haystack of an entry: the id, name and description its hit carries and the
\* extended search fields, the empty ones left out, joined by spaces, in lower case.
HaystackOf(e) ==
    LET hit == candidate(e.key, e.val).hit
    IN  toLowerCase(joinSpace(filterBoolean(
            <<hit.id, hit.name, hit.description>> \o SearchFields(e))))

\* The entries of the dataset whose haystack contains the query, in dataset order.
MatchingEntries(query) ==
    SelectSeq(Dataset, LAMBDA e : includes(HaystackOf(e), trim(toLowerCase(query))))

\* C11: for a query that is not empty, findFeatures answers with exactly the first
\* limit entries of the dataset, in its iteration order, whose haystack contains the
\* lower-cased, trimmed query: no matching entry before a returned one is left out
\* and no entry that does not match is returned.
C11_FirstMatchesInOrder ==
    (ret.op = "findFeatures" /\ trim(ret.name) # <<>>) =>
        LET m == MatchingEntries(ret.name)
            limit == IF ret.num = Omitted THEN 10 ELSE ret.num
            n == IF Len(m) < limit THEN Len(m) ELSE limit
        IN  /\ Len(ret.list) = n
            /\ \A i \in 1..n :
                  /\ ret.list[i].id = m[i].key
                  /\ ret.list[i] = candidate(m[i].key, m[i].val).hit

\* C11 witness: "api" with a limit of 2 on the bundled records: the first two
\* records do not match, the last two are returned in their order.
C11_Witness ==
    /\ ret.op = "findFeatures"
    /\ ret.name = Q_api
    /\ ret.num = 2
    /\ ~featuresMap.present
    /\ Len(ret.list) = 2
    /\ ret.list[1].id = Id_webusb
    /\ ret.list[2].id = Id_fetchStreaming
    /\ bcdCache[1].key = Id_cssHasSelector

----------------------------------------------------------------------------
(* Properties of compareFeatures                                           *)

\* The results of the two servers for the comparison just made.
Comparisons == {ret.mcp, ret.sse}

\* The browsers a comparison tracks, in their order.
TrackedBrowsers == <<"chrome", "edge", "firefox", "safari">>

\* C12: for any two records, supportDifference has exactly one row per tracked
\* browser, in the order chrome, edge, firefox, safari: four rows, none twice, no
\* mobile variant, whichever support keys the records define.
C12_OneRowPerTrackedBrowser ==
    ret.op = "compareFeatures" =>
        \A r \in Comparisons :
            /\ Len(r.supportDifference) = 4
            /\ [i \in 1..4 |-> r.supportDifference[i].browser] = TrackedBrowsers

\* C12 witness: a record that defines chrome and edge only, compared with one that
\* defines no support key.
C12_Witness ==
    /\ ret.op = "compareFeatures"
    /\ ret.featureA = mapped(Id_webusb, RawWebusb)
    /\ ret.featureB.support = EmptySupport
    /\ Len(ret.mcp.supportDifference) = 4
    /\ Len(ret.sse.supportDifference) = 4

\* The label the comparison gives a support value: the version when it is a string,
\* "supported" when it is true, "not supported" when it is false or absent.
LabelOf(support) ==
    CASE support.t = "string" -> support.v
      [] support = SupportTrue -> "supported"
      [] OTHER -> "not supported"

\* C13: in every row, aVersion and bVersion are the version string when the
\* record's support value for the row's browser is a string, "supported" when it is
\* truthy and not a string, "not supported" otherwise.
C13_VersionLabels ==
    ret.op = "compareFeatures" =>
        \A r \in Comparisons :
            \A i \in 1..Len(r.supportDifference) :
                LET row == r.supportDifference[i]
                IN  /\ row.aVersion = LabelOf(ret.featureA.support[row.browser])
                    /\ row.bVersion = LabelOf(ret.featureB.support[row.browser])

\* C13 witness: a record whose four support values are "120", true, false and
\* absent, compared with the bundled webusb.
C13_Witness ==
    /\ ret.op = "compareFeatures"
    /\ ret.featureA.support =
           Support(Version("120"), SupportTrue, SupportFalse, SupportAbsent)
    /\ ret.featureB = MapGet(getSampleBCDData, Id_webusb)
    /\ [i \in 1..4 |-> ret.mcp.supportDifference[i].aVersion] =
           <<"120", "supported", "not supported", "not supported">>
    /\ [i \in 1..4 |-> ret.sse.supportDifference[i].bVersion] =
           <<"61", "79", "not supported", "not supported">>

\* A record has a baseline high date.
HasHighDate(feature) == feature.baseline.t = "object" /\ feature.baseline.high # NoStr

\* C14: baselineDifference is present exactly when both records have a baseline
\* high date; it is absent, not a zero difference, when either has none.
C14_BaselineDifferenceIffBothHigh ==
    ret.op = "compareFeatures" =>
        \A r \in Comparisons :
            IF HasHighDate(ret.featureA) /\ HasHighDate(ret.featureB)
            THEN r.baselineDifference.t = "object"
            ELSE r.baselineDifference = NoBaselineDifference

\* C14 witness: the bundled webusb, which has no baseline, compared with the
\* bundled css-has-selector, which has one.
C14_Witness ==
    /\ ret.op = "compareFeatures"
    /\ ret.featureA = MapGet(getSampleBCDData, Id_webusb)
    /\ ret.featureB = MapGet(getSampleBCDData, Id_cssHasSelector)
    /\ ret.mcp.baselineDifference = NoBaselineDifference
    /\ ret.sse.baselineDifference = NoBaselineDifference

\* The calendar year of a date 'YYYY-MM-DD'
CalendarYear(date) == digitsValue(SubSeq(date, 1, 4), 0)

\* C15: when both records have a baseline high date, yearDiff is the distance of
\* the calendar years of the two dates and aFirst says that the first year is the
\* smaller; the bundled css-has-selector against the bundled offscreen-canvas
\* gives yearDiff = 1 and aFirst = false.
C15_YearDiffOfCalendarYears ==
    (ret.op = "compareFeatures" /\ HasHighDate(ret.featureA) /\ HasHighDate(ret.featureB)) =>
        \A r \in Comparisons :
            LET yearA == CalendarYear(ret.featureA.baseline.high)
                yearB == CalendarYear(ret.featureB.baseline.high)
            IN  /\ r.baselineDifference.yearDiff =
                       (IF yearA < yearB THEN yearB - yearA ELSE yearA - yearB)
                /\ r.baselineDifference.aFirst = (yearA < yearB)
                /\ ( /\ ret.featureA = MapGet(getSampleBCDData, Id_cssHasSelector)
                     /\ ret.featureB = MapGet(getSampleBCDData, Id_offscreenCanvas) )
                   => r.baselineDifference = BaselineDifference(1, FALSE)

\* C16: a record of the store compared with itself gives equal versions in every
\* row, yearDiff = 0 and aFirst = false.
C16_SelfComparisonIsZero ==
    (ret.op = "compareFeatures" /\ ret.featureA = ret.featureB
         /\ ret.featureA \in StoredFeatures) =>
        \A r \in Comparisons :
            /\ \A i \in 1..Len(r.supportDifference) :
                   r.supportDifference[i].aVersion = r.supportDifference[i].bVersion
            /\ r.baselineDifference = BaselineDifference(0, FALSE)

\* C16, amended: a record of the store compared with itself gives equal versions in
\* every row; when the record has a baseline high date, yearDiff = 0 and
\* aFirst = false; when it has none, baselineDifference is absent.
C16_SelfComparisonIsNeutral ==
    (ret.op = "compareFeatures" /\ ret.featureA = ret.featureB
         /\ ret.featureA \in StoredFeatures) =>
        \A r \in Comparisons :
            /\ \A i \in 1..Len(r.supportDifference) :
                   r.supportDifference[i].aVersion = r.supportDifference[i].bVersion
            /\ r.baselineDifference =
                   IF HasHighDate(ret.featureA) THEN BaselineDifference(0, FALSE)
                   ELSE NoBaselineDifference

\* C16 witness: the store's css-has-selector compared with itself: a zero
\* difference.
C16_Witness ==
    /\ ret.op = "compareFeatures"
    /\ MapHas(bcdCache, Id_cssHasSelector)
    /\ ret.featureA = MapGet(bcdCache, Id_cssHasSelector)
    /\ ret.featureB = ret.featureA
    /\ ret.mcp.baselineDifference = BaselineDifference(0, FALSE)
    /\ ret.sse.baselineDifference = BaselineDifference(0, FALSE)

----------------------------------------------------------------------------
(* Properties of overlapping requests                                      *)

\* What a load populates: the feature table and the handles of the external dataset.
Snapshot == <<bcdCache, featuresMap, groups, browsers, snapshots>>

\* C18: loads that overlap are redundant: a load that resumes after another load
\* completed while it was suspended leaves the store as that load left it, which is
\* what a single load produces; and a lookup, which runs when its request's own load
\* has returned, finds the store as a complete load leaves it, never in between.
C18_OverlappingLoadsAreRedundant ==
    [][/\ (ret'.op = "loadBCDData" /\ ret'.num = 1) => UNCHANGED Snapshot
       /\ ret'.op = "lookup" =>
             IF ret'.imp = NoImport THEN bcdCache # <<>>
             ELSE LET r == loadBCDDataAfterImport(ret'.imp)
                  IN  <<r.bcdCache, r.featuresMap, r.groups, r.browsers, r.snapshots>>
                          = Snapshot]_vars

\* C18 witness: two loads overlapped on an empty store, both have resumed, the
\* second one after the first one's request was answered, and the store holds the
\* records of the external table.
C18_Witness ==
    /\ ret.op = "loadBCDData"
    /\ ret.num = 1
    /\ ret.path = "external"
    /\ Len(pending) = 1
    /\ pending[1].stage = "loaded"
    /\ MapKeys(bcdCache) = MapKeys(ExtFeatures)

----------------------------------------------------------------------------
(* Properties of the request handlers                                      *)

\* The table a tool or route reads: the feature table or the baseline-year table.
TablesRead(tool) ==
    CASE tool \in {"getFeatureSupport", "findFeatureId", "compareSupport", "/api/features",
                   "/api/compare"} -> {"features"}
      [] tool \in {"listBaselineFeatures", "/api/baseline"} -> {"baseline"}
      [] OTHER -> {}

\* A load of the table has completed: loadBCDData ends with lastUpdate set or with
\* the bundled records stored; loadBaselineData ends with the years stored.
LoadCompleted(table) ==
    IF table = "features" THEN lastUpdate # 0 \/ bcdCache # <<>>
    ELSE baselineCache # <<>>

\* C19: on every transport path, a request is answered only after the load of the
\* table it reads was awaited for it, so its lookup, search or comparison never runs
\* on a table that was never loaded.
C19_LoadAwaitedBeforeAnswer ==
    ret.op = "handler" =>
        \A table \in TablesRead(ret.tool) :
            /\ table \in ret.reads
            /\ LoadCompleted(table)

\* C19 witness: the first request of a process, GET /api/baseline/2022, answered
\* with the two entries of 2022 when no feature load was ever run.
C19_Witness ==
    /\ ret.op = "handler"
    /\ ret.tool = "/api/baseline"
    /\ ret.num = 2022
    /\ Len(ret.answer.payload) = 2
    /\ lastUpdate = 0
    /\ bcdCache = <<>>

\* The tools and routes that look one or two features up by name.
LookupTools == {"getFeatureSupport", "compareSupport", "/api/compare"}

\* C20: a getFeatureSupport or compareSupport request naming a feature that
\* getFeature does not resolve is answered "not found"; no such request is answered
\* by an exception; and compareFeatures is called only when both lookups gave a
\* record.
C20_NotFoundIsAValue ==
    (ret.op = "handler" /\ ret.tool \in LookupTools) =>
        /\ ( \/ getFeature(ret.featureA) = Undefined
             \/ ret.tool # "getFeatureSupport" /\ getFeature(ret.featureB) = Undefined )
           => ret.answer.outcome = "not found"
        /\ ret.answer.outcome # "error"
        /\ ret.answer.engine =>
              /\ ret.answer.dataA.kind = "FeatureData"
              /\ ret.answer.dataB.kind = "FeatureData"

\* The four operations the tool-invocation protocol names.
NamedOperations ==
    {"getFeatureSupport", "findFeatureId", "listBaselineFeatures", "compareSupport"}

\* The tool names the call dispatcher of a transport has a case for.
DispatchedTools(transport) == IF transport = "stdio" THEN mcpTools ELSE sseTools

\* The listing part of C21: the tools a transport lists are the tools its dispatcher
\* accepts.
ListedToolsAreDispatched ==
    ret.op = "tools/list" =>
        {ret.list[i] : i \in 1..Len(ret.list)} = DispatchedTools(ret.path)

\* The dispatch part of C21: a call naming a tool the transport's dispatcher has no
\* case for is answered with an error, and nothing was looked up or compared for it.
UnknownToolIsAnError ==
    ( /\ ret.op = "handler"
      /\ ret.transport \in {"stdio", "tools/call"}
      /\ ret.tool \notin DispatchedTools(ret.transport) )
        => /\ ret.answer.outcome = "error"
           /\ ~ret.answer.engine
           /\ ret.answer.dataA = Undefined

\* C21: in each transport that answers tool listings and tool calls (stdio, and
\* HTTP POST tools/list and tools/call) the listed tools are the tools the
\* dispatcher accepts and are the four named operations getFeatureSupport,
\* findFeatureId, listBaselineFeatures and compareSupport; a call naming any other
\* tool is answered with an error and dispatched nowhere.
C21_FourToolsOnEveryTransport ==
    /\ ListedToolsAreDispatched
    /\ ret.op = "tools/list" =>
           {ret.list[i] : i \in 1..Len(ret.list)} = NamedOperations
    /\ ( /\ ret.op = "handler"
         /\ ret.transport \in {"stdio", "tools/call"}
         /\ ret.tool \notin NamedOperations )
           => ret.answer.outcome = "error"

\* The record getFeature is to answer with: the one stored under the normalized id
\* when there is one, else the one stored under the name as given, else absent.
NormalizedThenRaw(name) ==
    LET byNormalized == bcdCacheGet(normalizeFeatureName(name))
        byRaw == bcdCacheGet(Str(name))
    IN  IF byNormalized # Undefined THEN byNormalized
        ELSE IF byRaw # Undefined THEN byRaw
        ELSE Undefined

\* C22: getFeature tries the normalized id first and the name as given second: it
\* answers the record under the normalized id whenever the store has one, the
\* record under the raw name only when the normalized id has none, and absent only
\* when both miss.
C22_NormalizedIdThenRawName ==
    ret.op = "getFeature" => ret.value = NormalizedThenRaw(ret.name)

\* The records getAllFeatures answers with.
AllFeatures == {getAllFeatures[i] : i \in 1..Len(getAllFeatures)}

\* The ids findFeatures(id) finds when its limit is the size of the table it reads.
IdsFound(id) ==
    LET hits == findFeatures(id, Len(Dataset) + 1)
    IN  {hits[i].id : i \in 1..Len(hits)}

\* getFeature reaches nothing getAllFeatures leaves out.
ReachableIsListed ==
    \A id \in StoreKeys : getFeature(id) # Undefined => getFeature(id) \in AllFeatures

\* An id getFeature resolves is an id its own search finds.
ReachableIsFound ==
    \A id \in StoreKeys : getFeature(id) # Undefined => id \in IdsFound(id)

\* C23: after any sequence of loads the views of the store agree: every record
\* getFeature(id) answers for an id is contained in getAllFeatures(), a search for
\* that id with a sufficient limit has a hit for it, and getAllFeatures() is the
\* whole store.
C23_ViewsOfTheStoreAgree ==
    /\ ReachableIsListed
    /\ ReachableIsFound
    /\ AllFeatures = StoredFeatures

\* C24: the stdio and the HTTP transport compute comparisons identically: for every
\* pair of records, compareFeatures of WebBaselineMCPServer and compareFeatures of
\* SSEServer give equal supportDifference rows and equal baselineDifference (both
\* absent, or equal yearDiff and aFirst).
C24_TransportsCompareIdentically ==
    ret.op = "compareFeatures" =>
        /\ ret.mcp.supportDifference = ret.sse.supportDifference
        /\ ret.mcp.baselineDifference.t = ret.sse.baselineDifference.t
        /\ ret.mcp.baselineDifference.t = "object" =>
               /\ ret.mcp.baselineDifference.yearDiff = ret.sse.baselineDifference.yearDiff
               /\ ret.mcp.baselineDifference.aFirst = ret.sse.baselineDifference.aFirst

\* C24 witness: a record with a version, true, false and no value for its four
\* browsers and a high date of 1 January, compared in a zone west of UTC with the
\* bundled css-has-selector: both servers give the same four rows and the same
\* difference of zero years.
C24_Witness ==
    /\ ret.op = "compareFeatures"
    /\ ret.timeZone > 0
    /\ ret.featureA.baseline.high = High_newYear
    /\ ret.featureA.support = Support(Version("120"), SupportTrue, SupportFalse, SupportAbsent)
    /\ ret.featureB = MapGet(getSampleBCDData, Id_cssHasSelector)
    /\ ret.sse.supportDifference[3] = Row("firefox", "not supported", "121")
    /\ ret.mcp.supportDifference[3] = Row("firefox", "not supported", "121")
    /\ ret.mcp.baselineDifference = BaselineDifference(0, FALSE)
    /\ ret.sse.baselineDifference = BaselineDifference(0, FALSE)

----------------------------------------------------------------------------
(* Properties of the event streams                                         *)

\* The stream c is registered: clients holds its response under its key.
Registered(c) == MapGet(clients, connections[c].clientId) = c

\* Every stream that is open is registered.
OpenStreamsAreRegistered ==
    \A c \in 1..Len(connections) : connections[c].open => Registered(c)

\* No step takes the registration of a stream that stays open.
RegistrationOutlivesOtherCloses ==
    [][\A c \in 1..Len(connections) :
           (connections[c].open /\ Registered(c) /\ connections'[c].open) =>
               MapGet(clients', connections'[c].clientId) = c]_vars

\* C25: every open SSE connection stays registered for broadcasts until that same
\* connection closes: under any interleaving of connects (GET / with or without
\* Mcp-Session-Id, GET /events) and closes, clients holds an entry for each
\* connection that is still open, and the close of one connection never removes
\* the registration of another connection that is still open.
C25_OpenStreamsStayRegistered ==
    []OpenStreamsAreRegistered /\ RegistrationOutlivesOtherCloses

====
